---- MODULE Spec2Model ----
(***************************************************************************)
(* Model of the transaction engine (src/src/main.rs; src/src/engine/*.rs  *)
(* is the same code split in two modules).                                *)
(*                                                                         *)
(* The engine reads a csv file record by record (read_input), routes each *)
(* record to the Client it names (process_transactions), creating the     *)
(* Client on first sight (Client::new), and prints every client at the    *)
(* end of the stream (display_result).                                    *)
(*                                                                         *)
(* Amounts are f32 in the program (total is f64).  The model draws them   *)
(* from small integers, on which f32/f64 arithmetic is exact, so the      *)
(* integer arithmetic below is what the program computes on these inputs. *)
(***************************************************************************)
EXTENDS Integers, Sequences, FiniteSets, TLC

\* ------------------------------------------------------------------ bounds
\* number of records the source delivers before the stream must end
MaxRecords == 3
\* client ids are 1..MaxClient, transaction ids are 1..MaxTx
MaxClient == 2
MaxTx == 2

ClientIds == 1..MaxClient
TxIds == 1..MaxTx
\* the amounts a record may carry (Some(a)); None is the empty field
Amounts == {0, 3, 5, 10}

\* Option<T>: None is <<>>, Some(x) is <<x>>
None == <<>>
Some(x) == <<x>>
Option(S) == {None} \cup {Some(x) : x \in S}
unwrap(o) == o[1]
unwrap_or_default(o) == IF o = None THEN 0 ELSE o[1]

\* ------------------------------------------------------- TransactionType
TransactionType == {"Deposit", "Withdrawal", "Dispute", "Resolve", "Chargeback"}

\* the strings the type column may hold: the five keywords and one other
TypeStrings == {"deposit", "withdrawal", "dispute", "resolve", "chargeback", "transfer"}

\* From with the branches reordered: dispute is matched and Deposit is the
\* fallback
From_falling_back_to_deposit(value) ==
  IF value = "dispute" THEN "Dispute"
  ELSE IF value = "withdrawal" THEN "Withdrawal"
  ELSE IF value = "resolve" THEN "Resolve"
  ELSE IF value = "chargeback" THEN "Chargeback"
  ELSE "Deposit"

\* impl From<String> for TransactionType
From(value) ==
  IF value = "deposit" THEN "Deposit"
  ELSE IF value = "withdrawal" THEN "Withdrawal"
  ELSE IF value = "resolve" THEN "Resolve"
  ELSE IF value = "chargeback" THEN "Chargeback"
  ELSE "Dispute"

\* struct Record: type, client, tx, amount as deserialized from one csv line
Record == [type : TypeStrings, client : Option(ClientIds), tx : Option(TxIds),
           amount : Option(Amounts)]

\* ---------------------------------------------------------------- Client
\* HashMap::insert
insert(m, k, v) == [x \in (DOMAIN m) \cup {k} |-> IF x = k THEN v ELSE m[x]]

\* Client::new
Client_new(id, tx_id, transaction_type, amount) ==
  [id |-> id,
   available |-> amount,
   held |-> 0,
   total |-> IF transaction_type = "Deposit" THEN amount ELSE 0,
   locked |-> FALSE,
   transactions |-> insert(<<>>, tx_id, <<transaction_type, amount>>)]

\* Client::perform_deposit
perform_deposit(self, tx_id, tx_type, amount) ==
  LET available == self.available + amount
  IN [self EXCEPT !.available = available,
                  !.total = available + self.held,
                  !.transactions = insert(@, tx_id, <<tx_type, amount>>)]

\* perform_withdrawal without the lock test: a locked account still pays out
perform_withdrawal_ignoring_lock(self, tx_id, tx_type, amount) ==
  IF self.available > amount
  THEN LET available == self.available - amount
       IN [self EXCEPT !.available = available,
                       !.total = available + self.held,
                       !.transactions = insert(@, tx_id, <<tx_type, amount>>)]
  ELSE self

\* Client::perform_withdrawal
perform_withdrawal(self, tx_id, tx_type, amount) ==
  IF self.available > amount /\ ~self.locked
  THEN LET available == self.available - amount
       IN [self EXCEPT !.available = available,
                       !.total = available + self.held,
                       !.transactions = insert(@, tx_id, <<tx_type, amount>>)]
  ELSE self

\* perform_dispute that refuses a locked account, as perform_resolve does
perform_dispute_unless_locked(self, tx_id) ==
  IF tx_id \in DOMAIN self.transactions /\ ~self.locked
  THEN LET tx == self.transactions[tx_id]
           amount == tx[2]
       IN [self EXCEPT !.available = @ - tx[2],
                       !.held = @ + tx[2],
                       !.transactions = insert(@, tx_id, <<"Dispute", amount>>)]
  ELSE self

\* perform_dispute that remembers a dispute of a tx it does not know yet
perform_dispute_recording_unknown(self, tx_id) ==
  IF tx_id \in DOMAIN self.transactions
  THEN LET tx == self.transactions[tx_id]
           amount == tx[2]
       IN [self EXCEPT !.available = @ - tx[2],
                       !.held = @ + tx[2],
                       !.transactions = insert(@, tx_id, <<"Dispute", amount>>)]
  ELSE [self EXCEPT !.transactions = insert(@, tx_id, <<"Dispute", 0>>)]

\* Client::perform_dispute
perform_dispute(self, tx_id) ==
  IF tx_id \in DOMAIN self.transactions
  THEN LET tx == self.transactions[tx_id]
           amount == tx[2]
       IN [self EXCEPT !.available = @ - tx[2],
                       !.held = @ + tx[2],
                       !.transactions = insert(@, tx_id, <<"Dispute", amount>>)]
  ELSE self

\* perform_resolve without the lock test, as perform_chargeback is written
perform_resolve_ignoring_lock(self, tx_id) ==
  IF tx_id \in DOMAIN self.transactions
  THEN LET tx == self.transactions[tx_id]
           amount == tx[2]
       IN IF tx[1] = "Dispute"
          THEN [self EXCEPT !.available = @ + tx[2],
                            !.held = @ - tx[2],
                            !.transactions = insert(@, tx_id, <<"Resolve", amount>>)]
          ELSE self
  ELSE self

\* Client::perform_resolve
perform_resolve(self, tx_id) ==
  IF tx_id \in DOMAIN self.transactions
  THEN LET tx == self.transactions[tx_id]
           amount == tx[2]
       IN IF tx[1] = "Dispute" /\ ~self.locked
          THEN [self EXCEPT !.available = @ + tx[2],
                            !.held = @ - tx[2],
                            !.transactions = insert(@, tx_id, <<"Resolve", amount>>)]
          ELSE self
  ELSE self

\* Client::perform_chargeback
perform_chargeback(self, tx_id) ==
  IF tx_id \in DOMAIN self.transactions
  THEN LET tx == self.transactions[tx_id]
           amount == tx[2]
       IN IF tx[1] = "Dispute"
          THEN LET held == self.held - tx[2]
               IN [self EXCEPT !.held = held,
                               !.total = self.available + held,
                               !.locked = TRUE,
                               !.transactions = insert(@, tx_id, <<"Chargeback", amount>>)]
          ELSE self
  ELSE self

\* Client::execute_transaction
execute_transaction(self, tx_id, transaction_type, amount) ==
  CASE transaction_type = "Deposit" -> perform_deposit(self, tx_id, transaction_type, amount)
    [] transaction_type = "Withdrawal" -> perform_withdrawal(self, tx_id, transaction_type, amount)
    [] transaction_type = "Dispute" -> perform_dispute(self, tx_id)
    [] transaction_type = "Resolve" -> perform_resolve(self, tx_id)
    [] transaction_type = "Chargeback" -> perform_chargeback(self, tx_id)

\* ----------------------------------------------------- TransactionEngine
\* TransactionEngine::new: the empty clients map
TransactionEngine_new == <<>>

\* the record makes process_transactions panic: unwrap() of an absent
\* client or tx
panics(record) == record.client = None \/ record.tx = None

\* process_transactions with one ledger for all clients: a record of a known
\* client is executed on every account
process_transactions_on_every_client(cl, record) ==
  LET client_id == unwrap(record.client)
      tx_id == unwrap(record.tx)
      amount == unwrap_or_default(record.amount)
      transaction_type == From(record.type)
  IN IF client_id \notin DOMAIN cl
     THEN insert(cl, client_id, Client_new(client_id, tx_id, transaction_type, amount))
     ELSE [d \in DOMAIN cl |-> execute_transaction(cl[d], tx_id, transaction_type, amount)]

\* process_transactions that registers a new client in a fresh map, dropping
\* the clients known so far
process_transactions_forgetting_clients(cl, record) ==
  LET client_id == unwrap(record.client)
      tx_id == unwrap(record.tx)
      amount == unwrap_or_default(record.amount)
      transaction_type == From(record.type)
  IN IF client_id \notin DOMAIN cl
     THEN insert(<<>>, client_id, Client_new(client_id, tx_id, transaction_type, amount))
     ELSE [cl EXCEPT ![client_id] = execute_transaction(@, tx_id, transaction_type, amount)]

\* TransactionEngine::process_transactions on a record that does not panic:
\* the clients map after the call
process_transactions(cl, record) ==
  LET client_id == unwrap(record.client)
      tx_id == unwrap(record.tx)
      amount == unwrap_or_default(record.amount)
      transaction_type == From(record.type)
  IN IF client_id \notin DOMAIN cl
     THEN insert(cl, client_id, Client_new(client_id, tx_id, transaction_type, amount))
     ELSE [cl EXCEPT ![client_id] = execute_transaction(@, tx_id, transaction_type, amount)]

\* TransactionEngine::display_result: one line per client, in no order
display_result(cl) ==
  {<<cl[c].id, cl[c].available, cl[c].held, cl[c].total, cl[c].locked>> : c \in DOMAIN cl}

\* process_transactions hands the record to perform_chargeback, which finds its
\* tx in the history with kind Dispute
chargeback_applies(cl, record) ==
  /\ ~panics(record)
  /\ unwrap(record.client) \in DOMAIN cl
  /\ From(record.type) = "Chargeback"
  /\ unwrap(record.tx) \in DOMAIN cl[unwrap(record.client)].transactions
  /\ cl[unwrap(record.client)].transactions[unwrap(record.tx)][1] = "Dispute"

\* ------------------------------------------------------------------ state
VARIABLES
  clients,   \* TransactionEngine.clients
  pc,        \* where read_input is: "start", "reading", "done", "failed", "panicked"
  printed,   \* the lines display_result has printed
  nread,     \* number of records the reader has delivered
  shard,     \* history: shard[c] is an engine of its own, fed only client c's records
  seen,      \* history: the client ids of the records process_transactions was given
  deposited, \* history: deposited[c] is the sum of the amounts of c's Deposit records
  charged    \* history: the clients on which perform_chargeback took effect

vars == <<clients, pc, printed, nread, shard, seen, deposited, charged>>

Init ==
  /\ clients = TransactionEngine_new
  /\ pc = "start"
  /\ printed = {}
  /\ nread = 0
  /\ shard = [c \in ClientIds |-> TransactionEngine_new]
  /\ seen = {}
  /\ deposited = [c \in ClientIds |-> 0]
  /\ charged = {}

\* read_input: args.len() > 1 and the csv file opens with a header
OpenInput ==
  /\ pc = "start"
  /\ pc' = "reading"
  /\ UNCHANGED <<clients, printed, nread, shard, seen, deposited, charged>>

\* read_input: no argument ("input csv file not found!") or from_path/headers fails
NoInput ==
  /\ pc = "start"
  /\ pc' = "failed"
  /\ UNCHANGED <<clients, printed, nread, shard, seen, deposited, charged>>

\* read_input loop body: a record is deserialized and processed
ReadRecord(record) ==
  /\ pc = "reading"
  /\ nread < MaxRecords
  /\ ~panics(record)
  /\ clients' = process_transactions(clients, record)
  /\ shard' = [shard EXCEPT ![unwrap(record.client)] = process_transactions(@, record)]
  /\ nread' = nread + 1
  /\ seen' = seen \cup {unwrap(record.client)}
  /\ deposited' = IF From(record.type) = "Deposit"
                  THEN [deposited EXCEPT ![unwrap(record.client)] =
                          @ + unwrap_or_default(record.amount)]
                  ELSE deposited
  /\ charged' = IF chargeback_applies(clients, record)
                THEN charged \cup {unwrap(record.client)}
                ELSE charged
  /\ UNCHANGED <<pc, printed>>

\* read_input loop body: process_transactions unwraps an absent client or tx
\* and the thread panics: the loop is left and nothing is printed
ReadPanic(record) ==
  /\ pc = "reading"
  /\ nread < MaxRecords
  /\ panics(record)
  /\ pc' = "panicked"
  /\ nread' = nread + 1
  /\ UNCHANGED <<clients, printed, shard, seen, deposited, charged>>

\* read_input loop body: the line does not deserialize, `result?` returns the error
ReadError ==
  /\ pc = "reading"
  /\ nread < MaxRecords
  /\ pc' = "failed"
  /\ nread' = nread + 1
  /\ UNCHANGED <<clients, printed, shard, seen, deposited, charged>>

\* read_input: the stream ends, display_result prints every client
EndOfInput ==
  /\ pc = "reading"
  /\ pc' = "done"
  /\ printed' = display_result(clients)
  /\ UNCHANGED <<clients, nread, shard, seen, deposited, charged>>

Next ==
  \/ OpenInput
  \/ NoInput
  \/ \E record \in Record : ReadRecord(record)
  \/ \E record \in Record : ReadPanic(record)
  \/ ReadError
  \/ EndOfInput

Spec == Init /\ [][Next]_vars

\* ----------------------------------------------------------------- claims
\* The properties below are stated on every reachable engine state together
\* with every record the reader may deliver next: after(record) is the
\* clients map process_transactions leaves when `record` is read in the
\* current state.

\* a record with both identifiers present
Rec(type, client, tx, amount) ==
  [type |-> type, client |-> Some(client), tx |-> Some(tx), amount |-> amount]

\* the records process_transactions does not panic on
Routed == {record \in Record : ~panics(record)}

after(record) == process_transactions(clients, record)

\* the transactions of an account that are under dispute
Disputed(acc) == {x \in DOMAIN acc.transactions : acc.transactions[x][1] = "Dispute"}

\* C1: for every client account, in every reachable state (the state right
\* after the record that creates the account included),
\* total = available + held.
TotalIsAvailablePlusHeld ==
  \A c \in DOMAIN clients : clients[c].total = clients[c].available + clients[c].held

\* C2: a record whose client or tx is absent is skipped and the run
\* continues: the step that reads it leaves the clients map unchanged and
\* the reader in its loop (so that later records are processed and the
\* snapshots printed at the end of the stream).
MalformedRecordIsSkipped ==
  [][\A record \in Record :
       ReadPanic(record) => (clients' = clients /\ pc' = "reading")]_vars

\* C3: Withdrawal(tx, amt) on an account is applied only when available > amt
\* and the account is not locked; then available and total decrease by amt
\* and history[tx] = (Withdrawal, amt).  Otherwise (amt = available included)
\* the account is unchanged, and since the rejected tx id is not recorded a
\* later Dispute on it changes nothing either.
WithdrawalAppliesOnlyBelowAvailable ==
  \A c \in DOMAIN clients, x \in TxIds, a \in Option(Amounts) :
    LET acc == clients[c]
        amt == unwrap_or_default(a)
        post == after(Rec("withdrawal", c, x, a))[c]
    IN IF acc.available > amt /\ ~acc.locked
       THEN /\ post.available = acc.available - amt
            /\ post.total = acc.total - amt
            /\ post.held = acc.held
            /\ post.locked = acc.locked
            /\ post.transactions = insert(acc.transactions, x, <<"Withdrawal", amt>>)
       ELSE /\ post = acc
            /\ x \notin DOMAIN acc.transactions => perform_dispute(post, x) = acc

\* C4: lock finality.  An account that is locked is still locked after any
\* further record, whatever its kind and whichever client it names, and a
\* Withdrawal read while the account is locked leaves its available and
\* total unchanged.
LockFinality ==
  \A c \in DOMAIN clients :
    clients[c].locked =>
      \A record \in Routed :
        LET post == after(record)
        IN /\ c \in DOMAIN post
           /\ post[c].locked
           /\ (record.client = Some(c) /\ From(record.type) = "Withdrawal") =>
                /\ post[c].available = clients[c].available
                /\ post[c].total = clients[c].total

\* C4 witness: a locked account whose available balance exceeds the amount
\* of a Withdrawal, which is nevertheless rejected.
LockedAccountRejectsCoveredWithdrawal ==
  \E c \in DOMAIN clients, x \in TxIds, a \in Amounts :
    /\ clients[c].locked
    /\ a > 0
    /\ clients[c].available > a
    /\ after(Rec("withdrawal", c, x, Some(a)))[c] = clients[c]

\* C5: Dispute(tx) on a tx whose history entry has kind Resolve or
\* Chargeback is a no-op: the account (balances, lock and history) is
\* unchanged.
DisputeOfSettledTxIsNoop ==
  \A c \in DOMAIN clients, a \in Option(Amounts) :
    \A x \in DOMAIN clients[c].transactions :
      clients[c].transactions[x][1] \in {"Resolve", "Chargeback"} =>
        after(Rec("dispute", c, x, a))[c] = clients[c]

\* C6: when the first record of a client is a Dispute, Resolve or
\* Chargeback, the account created is empty and non-disputed: available,
\* held and total are zero, locked is false, no transaction is in the
\* Dispute state, and a following Resolve or Chargeback of the same tx
\* changes nothing (it does not lock the account).
FirstLifecycleRecordCreatesEmptyAccount ==
  \A c \in ClientIds \ DOMAIN clients, x \in TxIds, a \in Option(Amounts) :
    \A type \in {"dispute", "resolve", "chargeback"} :
      LET created == after(Rec(type, c, x, a))
          acc == created[c]
      IN /\ acc.available = 0
         /\ acc.held = 0
         /\ acc.total = 0
         /\ ~acc.locked
         /\ Disputed(acc) = {}
         /\ \A next \in {"resolve", "chargeback"}, b \in Option(Amounts) :
              process_transactions(created, Rec(next, c, x, b)) = created

\* C7: Chargeback(tx) is applied exactly when tx is in the history with kind
\* Dispute, locked or not: held and total decrease by the entry's amount,
\* available is unchanged, locked becomes true, the entry becomes
\* (Chargeback, amount).  In every other case the account is unchanged.
\* A new client's deposit 10 (tx 1), dispute tx 1, chargeback tx 1 ends with
\* available = 0, held = 0, total = 0, locked.
ChargebackAppliesExactlyToDisputed ==
  /\ \A c \in DOMAIN clients, x \in TxIds, a \in Option(Amounts) :
       LET acc == clients[c]
           post == after(Rec("chargeback", c, x, a))[c]
       IN IF x \in Disputed(acc)
          THEN LET amt == acc.transactions[x][2]
               IN /\ post.held = acc.held - amt
                  /\ post.total = acc.total - amt
                  /\ post.available = acc.available
                  /\ post.locked
                  /\ post.transactions = insert(acc.transactions, x, <<"Chargeback", amt>>)
          ELSE post = acc
  /\ \A c \in ClientIds \ DOMAIN clients :
       LET s1 == after(Rec("deposit", c, 1, Some(10)))
           s2 == process_transactions(s1, Rec("dispute", c, 1, None))
           s3 == process_transactions(s2, Rec("chargeback", c, 1, None))
       IN /\ s3[c].available = 0
          /\ s3[c].held = 0
          /\ s3[c].total = 0
          /\ s3[c].locked

\* C8: Resolve(tx) is applied exactly when tx is in the account's history
\* with kind Dispute and the account is not locked: available increases and
\* held decreases by the entry's amount, total and locked are unchanged, the
\* entry becomes (Resolve, amount).  In every other case (unknown tx, kind
\* not Dispute, locked account) the account is unchanged.
ResolveAppliesExactlyToDisputedUnlocked ==
  \A c \in DOMAIN clients, x \in TxIds, a \in Option(Amounts) :
    LET acc == clients[c]
        post == after(Rec("resolve", c, x, a))[c]
    IN IF x \in Disputed(acc) /\ ~acc.locked
       THEN LET amt == acc.transactions[x][2]
            IN /\ post.available = acc.available + amt
               /\ post.held = acc.held - amt
               /\ post.total = acc.total
               /\ post.locked = acc.locked
               /\ post.transactions = insert(acc.transactions, x, <<"Resolve", amt>>)
       ELSE post = acc

\* C8 witness: an unlocked account holding the funds of a disputed deposit,
\* which a Resolve releases.
ResolveReleasesHeldFunds ==
  \E c \in DOMAIN clients :
    \E x \in Disputed(clients[c]) :
      LET acc == clients[c]
          post == after(Rec("resolve", c, x, None))[c]
      IN /\ ~acc.locked
         /\ acc.transactions[x][2] > 0
         /\ acc.held = acc.transactions[x][2]
         /\ post.held = 0
         /\ post.available = acc.available + acc.transactions[x][2]
         /\ post.transactions[x][1] = "Resolve"

\* C8 witness, the rejected side: a locked account with a disputed
\* transaction, on which Resolve changes nothing.
LockedAccountRejectsResolve ==
  \E c \in DOMAIN clients :
    \E x \in Disputed(clients[c]) :
      /\ clients[c].locked
      /\ after(Rec("resolve", c, x, None)) = clients

\* C9: Deposit(tx, amt) never fails and is never ignored: on every account,
\* locked or not, and as the first record of a client, available and total
\* increase by amt, held and locked are unchanged and history[tx] becomes
\* (Deposit, amt).  Deposits of 5 (tx 1) and 3 (tx 2) for a new client give
\* available = 8, held = 0, total = 8, unlocked.
DepositAlwaysApplies ==
  /\ \A c \in DOMAIN clients, x \in TxIds, a \in Option(Amounts) :
       LET acc == clients[c]
           amt == unwrap_or_default(a)
           post == after(Rec("deposit", c, x, a))[c]
       IN /\ post.available = acc.available + amt
          /\ post.total = acc.total + amt
          /\ post.held = acc.held
          /\ post.locked = acc.locked
          /\ post.transactions = insert(acc.transactions, x, <<"Deposit", amt>>)
  /\ \A c \in ClientIds \ DOMAIN clients, x \in TxIds, a \in Option(Amounts) :
       LET amt == unwrap_or_default(a)
           post == after(Rec("deposit", c, x, a))[c]
       IN /\ post.available = amt
          /\ post.total = amt
          /\ post.held = 0
          /\ ~post.locked
          /\ post.transactions = insert(<<>>, x, <<"Deposit", amt>>)
  /\ \A c \in ClientIds \ DOMAIN clients :
       LET s1 == after(Rec("deposit", c, 1, Some(5)))
           s2 == process_transactions(s1, Rec("deposit", c, 2, Some(3)))
       IN /\ s2[c].available = 8
          /\ s2[c].held = 0
          /\ s2[c].total = 8
          /\ ~s2[c].locked

\* the tx ids recorded under a client other than c
RecordedElsewhere(c) ==
  UNION {DOMAIN clients[d].transactions : d \in DOMAIN clients \ {c}}

\* the tx ids recorded under client c
RecordedUnder(c) ==
  IF c \in DOMAIN clients THEN DOMAIN clients[c].transactions ELSE {}

\* every other client's account is the same before and after `record`
OthersUnchanged(record) ==
  \A d \in DOMAIN clients \ {unwrap(record.client)} :
    d \in DOMAIN after(record) /\ after(record)[d] = clients[d]

\* client c's account is what an engine fed only c's records holds
EqualsOwnShard(c) ==
  IF c \in DOMAIN clients
  THEN DOMAIN shard[c] = {c} /\ shard[c][c] = clients[c]
  ELSE shard[c] = TransactionEngine_new

\* the Dispute, Resolve and Chargeback records of client c that name tx x
LifecycleRecords(c, x) ==
  {Rec(type, c, x, a) : type \in {"dispute", "resolve", "chargeback"},
                        a \in Option(Amounts)}

\* C10 as stated: a record of client c changes only c's account; a Dispute,
\* Resolve or Chargeback of client c naming a tx recorded only under another
\* client is a no-op; each client's state is the state obtained from its own
\* records alone.
CrossClientLifecycleIsNoop ==
  /\ \A record \in Routed : OthersUnchanged(record)
  /\ \A c \in ClientIds :
       \A x \in RecordedElsewhere(c) \ RecordedUnder(c) :
         \A record \in LifecycleRecords(c, x) : after(record) = clients
  /\ \A c \in ClientIds : EqualsOwnShard(c)

\* C10 amended: a record of client c changes only c's account; a Dispute,
\* Resolve or Chargeback naming a tx recorded only under another client is a
\* no-op when c has an account, and when c has none it creates c's account
\* as Client::new seeds it; each client's state is the state obtained from
\* its own records alone.
ClientsAreIsolated ==
  /\ \A record \in Routed : OthersUnchanged(record)
  /\ \A c \in ClientIds :
       \A x \in RecordedElsewhere(c) \ RecordedUnder(c) :
         \A record \in LifecycleRecords(c, x) :
           IF c \in DOMAIN clients
           THEN after(record) = clients
           ELSE after(record) =
                  insert(clients, c, Client_new(c, x, From(record.type),
                                                unwrap_or_default(record.amount)))
  /\ \A c \in ClientIds : EqualsOwnShard(c)

\* C10 witness: two clients, a transaction disputed under one of them and
\* unknown to the other, whose Chargeback of it changes nothing.
ForeignTxIsUnknown ==
  \E c \in DOMAIN clients, d \in DOMAIN clients :
    \E x \in Disputed(clients[d]) \ RecordedUnder(c) :
      /\ c # d
      /\ clients[d].transactions[x][2] > 0
      /\ after(Rec("chargeback", c, x, None)) = clients
      /\ EqualsOwnShard(c)
      /\ EqualsOwnShard(d)

\* C11: after any prefix of the stream the engine holds exactly one account
\* for each client id of a processed record and none for any other id; no
\* record removes an account; the snapshots printed at the end hold exactly
\* one line per client seen.
OneAccountPerClientSeen ==
  /\ DOMAIN clients = seen
  /\ \A c \in DOMAIN clients : clients[c].id = c
  /\ \A record \in Routed :
       DOMAIN after(record) = DOMAIN clients \cup {unwrap(record.client)}
  /\ pc = "done" =>
       /\ {line[1] : line \in printed} = seen
       /\ Cardinality(printed) = Cardinality(seen)

\* C11 witness: the stream has ended after records of two clients and two
\* lines are printed.
TwoClientsPrinted ==
  /\ pc = "done"
  /\ Cardinality(seen) = 2
  /\ Cardinality(printed) = 2
  /\ DOMAIN clients = seen

\* C12: the amount of a Dispute, Resolve or Chargeback record is ignored: in
\* any engine state, the client known or not, two such records that differ
\* only in amount (absent, zero or any value) leave the same engine state.
LifecycleAmountIsIgnored ==
  \A c \in ClientIds, x \in TxIds, a \in Option(Amounts), b \in Option(Amounts) :
    \A type \in {"dispute", "resolve", "chargeback"} :
      after(Rec(type, c, x, a)) = after(Rec(type, c, x, b))

\* C13: Dispute(tx) on a tx present in the account's history moves the
\* entry's amount from available to held, leaves total and locked unchanged
\* and sets the entry to (Dispute, amount), whatever the entry's kind and
\* whether or not the account is locked.
DisputeMovesAmountToHeld ==
  \A c \in DOMAIN clients, a \in Option(Amounts) :
    \A x \in DOMAIN clients[c].transactions :
      LET acc == clients[c]
          amt == acc.transactions[x][2]
          post == after(Rec("dispute", c, x, a))[c]
      IN /\ post.available = acc.available - amt
         /\ post.held = acc.held + amt
         /\ post.total = acc.total
         /\ post.locked = acc.locked
         /\ post.transactions = insert(acc.transactions, x, <<"Dispute", amt>>)

\* C13 witness: a locked account with a Deposit or Withdrawal entry of a
\* positive amount, which a Dispute moves to held.
LockedAccountDisputeMovesFunds ==
  \E c \in DOMAIN clients :
    \E x \in DOMAIN clients[c].transactions :
      LET acc == clients[c]
          post == after(Rec("dispute", c, x, None))[c]
      IN /\ acc.locked
         /\ acc.transactions[x][1] \in {"Deposit", "Withdrawal"}
         /\ acc.transactions[x][2] > 0
         /\ post.held = acc.held + acc.transactions[x][2]
         /\ post.transactions[x][1] = "Dispute"

\* C14: a Dispute of a tx the existing account does not know is a no-op, and
\* a Deposit or Withdrawal that later uses that tx id is not treated as
\* disputed: it is processed as if the Dispute had never been read, its
\* entry is not in the Dispute state, and a Resolve or Chargeback of it
\* changes nothing.
EarlyDisputeIsForgotten ==
  \A c \in DOMAIN clients, a \in Option(Amounts) :
   \A x \in TxIds \ RecordedUnder(c) :
    LET s1 == after(Rec("dispute", c, x, a))
    IN /\ s1 = clients
       /\ \A type \in {"deposit", "withdrawal"}, b \in Option(Amounts) :
            LET s2 == process_transactions(s1, Rec(type, c, x, b))
            IN /\ s2 = after(Rec(type, c, x, b))
               /\ x \notin Disputed(s2[c])
               /\ \A next \in {"resolve", "chargeback"} :
                    process_transactions(s2, Rec(next, c, x, None)) = s2

\* C14 witness: an account that does not know tx x and can afford a
\* Withdrawal of 3; after Dispute(x) and that Withdrawal the entry of x is
\* (Withdrawal, 3).
EarlyDisputeThenWithdrawal ==
  \E c \in DOMAIN clients :
    \E x \in TxIds \ RecordedUnder(c) :
      LET s1 == after(Rec("dispute", c, x, None))
          s2 == process_transactions(s1, Rec("withdrawal", c, x, Some(3)))
      IN /\ clients[c].available > 3
         /\ s2[c].transactions[x] = <<"Withdrawal", 3>>
         /\ s2[c].held = clients[c].held

\* kind strings that are none of the five keywords (the comparison is exact,
\* so a capitalised keyword and the empty string are among them)
Unrecognized == {"transfer", "Deposit", "WITHDRAWAL", ""}

\* C15: a record whose kind string is none of deposit, withdrawal, dispute,
\* resolve, chargeback is processed exactly as the Dispute record with the
\* same client, tx and amount: from any engine state, the client known or
\* not, both leave the same engine state.
UnrecognizedKindIsDispute ==
  \A c \in ClientIds, x \in TxIds, a \in Option(Amounts), type \in Unrecognized :
    after(Rec(type, c, x, a)) = after(Rec("dispute", c, x, a))

\* C15 witness: an account with a Deposit entry of a positive amount, which
\* a record of kind "transfer" puts under dispute.
UnrecognizedKindDisputesDeposit ==
  \E c \in DOMAIN clients :
    \E x \in DOMAIN clients[c].transactions :
      LET acc == clients[c]
          post == after(Rec("transfer", c, x, None))[c]
      IN /\ acc.transactions[x][1] = "Deposit"
         /\ acc.transactions[x][2] > 0
         /\ post.transactions[x] = <<"Dispute", acc.transactions[x][2]>>
         /\ post.held = acc.held + acc.transactions[x][2]
         /\ post.available = acc.available - acc.transactions[x][2]

\* the sum of the amounts of the entries S of an account's history
RECURSIVE SumOfAmounts(_, _)
SumOfAmounts(acc, S) ==
  IF S = {} THEN 0
  ELSE LET x == CHOOSE y \in S : TRUE
       IN acc.transactions[x][2] + SumOfAmounts(acc, S \ {x})

\* C16: in every reachable state of every account, held equals the sum of
\* the amounts of the history entries whose kind is Dispute.
HeldIsSumOfDisputed ==
  \A c \in DOMAIN clients :
    clients[c].held = SumOfAmounts(clients[c], Disputed(clients[c]))

\* the funds of client c in the clients map cl, none if c has no account
Funds(cl, c) == IF c \in DOMAIN cl THEN cl[c].available + cl[c].held ELSE 0

\* C17: no money is created (amounts are non-negative): each client's
\* available + held is at most the sum of the amounts of its Deposit
\* records so far, and a Withdrawal, Dispute, Resolve or Chargeback record,
\* also as the first record of a client, never raises available + held.
NoMoneyCreated ==
  /\ \A c \in ClientIds : Funds(clients, c) <= deposited[c]
  /\ \A record \in Routed :
       From(record.type) # "Deposit" =>
         Funds(after(record), unwrap(record.client))
           <= Funds(clients, unwrap(record.client))

\* C18: held is never negative (amounts are non-negative).
HeldNeverNegative ==
  \A c \in DOMAIN clients : clients[c].held >= 0

\* C19: an account is locked if and only if a Chargeback has been applied to
\* it; a newly created account is unlocked; only an applied Chargeback sets
\* locked; every history entry of kind Chargeback belongs to a locked
\* account.
LockedIffChargedBack ==
  /\ \A c \in DOMAIN clients : clients[c].locked <=> c \in charged
  /\ \A record \in Routed :
       LET c == unwrap(record.client)
       IN IF c \notin DOMAIN clients
          THEN ~after(record)[c].locked
          ELSE (after(record)[c].locked /\ ~clients[c].locked)
                 => chargeback_applies(clients, record)
  /\ \A c \in DOMAIN clients :
       \A x \in DOMAIN clients[c].transactions :
         clients[c].transactions[x][1] = "Chargeback" => clients[c].locked

====
